---- MODULE Spec2Model ----
(***************************************************************************)
(* Model of src/gmm/GMM with PyTorch.ipynb: gradient-based maximum         *)
(* likelihood estimation of a multivariate Gaussian and of a mixture of    *)
(* Gaussians.                                                               *)
(*                                                                         *)
(*   SpecLoop : the notebook's cells that evaluate a loss, call backward    *)
(*              and run the two optimization loops, one statement per step. *)
(*   SpecLik  : loglik / nll evaluated on parameters (mu, d, W) that the    *)
(*              optimizer step rewrites.                                    *)
(*   SpecLse  : logsumexp applied to a score matrix and an axis.            *)
(*   SpecMix  : mixture_nll applied to its arguments under a value of the   *)
(*              notebook global n_components.                               *)
(*                                                                         *)
(* Real numbers are modelled by integers.  Log-domain quantities keep the   *)
(* transcendental parts symbolic: a log-density is a record of integer      *)
(* coefficients, exp(d_i) is the positive integer 2^d_i.                    *)
(***************************************************************************)
EXTENDS Integers, Sequences, FiniteSets, TLC

VARIABLES
    \* ---- optimization loops (SpecLoop)
    pc,          \* position in the notebook's loop cells
    t,           \* loop variable of the running for-loop
    loss,        \* the Python variable loss: value, evaluation that made it, parameter version it was evaluated at
    best_loss,   \* the Python variable best_loss
    ver,         \* number of in-place updates applied to the optimizer's parameters
    grad,        \* .grad buffers of the optimizer's parameters: the backward passes accumulated in them
    hist,        \* losses evaluated by the running loop, in order
    nZero, nBack, nStep,   \* calls of zero_grad / backward / step made by the running loop
    exitBy,      \* how the mixture loop was left
    \* ---- likelihood (SpecLik)
    lpc, X, mu, d, W, ll,
    \* ---- logsumexp (SpecLse)
    spc, data, dim, lse,
    \* ---- mixture loss (SpecMix)
    mpc, n_components, weights, comps, outs

loopVars == <<pc, t, loss, best_loss, ver, grad, hist, nZero, nBack, nStep, exitBy>>
likVars  == <<lpc, X, mu, d, W, ll>>
lseVars  == <<spc, data, dim, lse>>
mixVars  == <<mpc, n_components, weights, comps, outs>>
vars     == <<loopVars, likVars, lseVars, mixVars>>

----------------------------------------------------------------------------
(* Bounds of the model *)

\* iterations of the single-Gaussian loop explored (the notebook runs range(2000))
MaxIterS == 3
\* iterations of the mixture loop explored (the notebook runs range(5000))
MaxIterM == 3
\* finite loss values are 0..MaxLoss
MaxLoss == 3

----------------------------------------------------------------------------
(* Floating point values of a loss *)

NaN    == [kind |-> "nan",  v |-> 0]
PosInf == [kind |-> "inf",  v |-> 0]
NegInf == [kind |-> "ninf", v |-> 0]
Fin(n) == [kind |-> "fin",  v |-> n]

LossVals == {NaN, PosInf, NegInf} \cup {Fin(n) : n \in 0..MaxLoss}

\* IEEE-754 a < b : false as soon as one side is NaN
FloatLt(a, b) ==
    /\ a.kind # "nan"
    /\ b.kind # "nan"
    /\ \/ (a.kind = "ninf" /\ b.kind # "ninf")
       \/ (a.kind = "fin" /\ b.kind = "inf")
       \/ (a.kind = "fin" /\ b.kind = "fin" /\ a.v < b.v)

NoLoss == [val |-> NaN, ph |-> "none", it |-> 0, at |-> 0]

----------------------------------------------------------------------------
(* The optimization cells *)

LoopIdle ==
    /\ pc = "idle" /\ t = 0 /\ loss = NoLoss /\ best_loss = PosInf /\ ver = 0
    /\ grad = <<>> /\ hist = <<>> /\ nZero = 0 /\ nBack = 0 /\ nStep = 0
    /\ exitBy = "none"

LoopInit ==
    /\ pc = "pre_eval" /\ t = 0 /\ loss = NoLoss /\ best_loss = PosInf /\ ver = 0
    /\ grad = <<>> /\ hist = <<>> /\ nZero = 0 /\ nBack = 0 /\ nStep = 0
    /\ exitBy = "none"

\* loss = nll(X, mu, d, W)   (cell before the first loop)
PreEval ==
    /\ pc = "pre_eval"
    /\ \E l \in LossVals : loss' = [val |-> l, ph |-> "pre", it |-> 0, at |-> ver]
    /\ pc' = "pre_back"
    /\ UNCHANGED <<t, best_loss, ver, grad, hist, nZero, nBack, nStep, exitBy>>
    /\ UNCHANGED <<likVars, lseVars, mixVars>>

\* backward(): adds the gradient of the current loss to the .grad buffers
Accumulate(g, l) == Append(g, [ph |-> l.ph, it |-> l.it, at |-> l.at])

\* loss.backward([torch.ones(1)])
PreBackward ==
    /\ pc = "pre_back"
    /\ grad' = Accumulate(grad, loss)
    /\ pc' = "s_head"
    /\ UNCHANGED <<t, loss, best_loss, ver, hist, nZero, nBack, nStep, exitBy>>
    /\ UNCHANGED <<likVars, lseVars, mixVars>>

\* optimizer = torch.optim.Adam([mu, d, W], ...); for t in range(2000):
SingleHead ==
    /\ pc = "s_head"
    /\ IF t < MaxIterS
         THEN pc' = "s_eval"
         ELSE pc' = "m_setup"
    /\ UNCHANGED <<t, loss, best_loss, ver, grad, hist, nZero, nBack, nStep, exitBy>>
    /\ UNCHANGED <<likVars, lseVars, mixVars>>

\* loss = nll(X, mu, d, W); print every 100 iterations
SingleEval ==
    /\ pc = "s_eval"
    /\ \E l \in LossVals :
          /\ loss' = [val |-> l, ph |-> "single", it |-> t, at |-> ver]
          /\ hist' = Append(hist, l)
    /\ pc' = "s_zero"
    /\ UNCHANGED <<t, best_loss, ver, grad, nZero, nBack, nStep, exitBy>>
    /\ UNCHANGED <<likVars, lseVars, mixVars>>

\* optimizer.zero_grad()
ZeroGradSkipped(g) == g

ZeroGrad(g) == <<>>

SingleZeroGrad ==
    /\ pc = "s_zero"
    /\ grad' = ZeroGrad(grad)
    /\ nZero' = nZero + 1
    /\ pc' = "s_back"
    /\ UNCHANGED <<t, loss, best_loss, ver, hist, nBack, nStep, exitBy>>
    /\ UNCHANGED <<likVars, lseVars, mixVars>>

\* loss.backward()
SingleBackward ==
    /\ pc = "s_back"
    /\ grad' = Accumulate(grad, loss)
    /\ nBack' = nBack + 1
    /\ pc' = "s_step"
    /\ UNCHANGED <<t, loss, best_loss, ver, hist, nZero, nStep, exitBy>>
    /\ UNCHANGED <<likVars, lseVars, mixVars>>

\* optimizer.step(): the parameters are rewritten in place; next iteration
SingleStep ==
    /\ pc = "s_step"
    /\ ver' = ver + 1
    /\ nStep' = nStep + 1
    /\ t' = t + 1
    /\ pc' = "s_head"
    /\ UNCHANGED <<loss, best_loss, grad, hist, nZero, nBack, exitBy>>
    /\ UNCHANGED <<likVars, lseVars, mixVars>>

\* the mixture cells: fresh parameter Variables (no .grad yet), a new
\* optimizer over them, best_loss = np.inf
MixSetup ==
    /\ pc = "m_setup"
    /\ grad' = <<>>
    /\ ver' = 0
    /\ best_loss' = PosInf
    /\ t' = 0
    /\ hist' = <<>>
    /\ nZero' = 0 /\ nBack' = 0 /\ nStep' = 0
    /\ pc' = "m_head"
    /\ UNCHANGED <<loss, exitBy>>
    /\ UNCHANGED <<likVars, lseVars, mixVars>>

\* for t in range(5000):
MixHead ==
    /\ pc = "m_head"
    /\ IF t < MaxIterM
         THEN pc' = "m_eval" /\ UNCHANGED exitBy
         ELSE pc' = "done" /\ exitBy' = "exhausted"
    /\ UNCHANGED <<t, loss, best_loss, ver, grad, hist, nZero, nBack, nStep>>
    /\ UNCHANGED <<likVars, lseVars, mixVars>>

\* loss = mixture_nll(X, weights, means, prec_diags, prec_off_diags); print
MixEval ==
    /\ pc = "m_eval"
    /\ \E l \in LossVals :
          /\ loss' = [val |-> l, ph |-> "mixture", it |-> t, at |-> ver]
          /\ hist' = Append(hist, l)
    /\ pc' = "m_cmp"
    /\ UNCHANGED <<t, best_loss, ver, grad, nZero, nBack, nStep, exitBy>>
    /\ UNCHANGED <<likVars, lseVars, mixVars>>

\* if loss.data.numpy() <= best_loss
ImprovedOrEqual(l, best) == FloatLt(l, best) \/ (l.kind # "nan" /\ l = best)

\* if not (loss.data.numpy() >= best_loss)
ImprovedNegated(l, best) ==
    ~ ( \/ l.kind = "inf"
        \/ best.kind = "ninf"
        \/ (l.kind = "fin" /\ best.kind = "fin" /\ l.v >= best.v) )

\* if loss.data.numpy() < best_loss
Improved(l, best) == FloatLt(l, best)

\* the comparison made after the update instead of before it
MixCompareAfterUpdate ==
    /\ pc = "m_cmp"
    /\ IF Improved(loss.val, best_loss)
         THEN /\ best_loss' = loss.val
              /\ pc' = "m_zero"
              /\ UNCHANGED <<exitBy, ver, grad, nZero, nBack, nStep>>
         ELSE /\ pc' = "done"
              /\ exitBy' = "break"
              /\ grad' = <<[ph |-> loss.ph, it |-> loss.it, at |-> loss.at]>>
              /\ nZero' = nZero + 1 /\ nBack' = nBack + 1 /\ nStep' = nStep + 1
              /\ ver' = ver + 1
              /\ UNCHANGED best_loss
    /\ UNCHANGED <<t, loss, hist>>
    /\ UNCHANGED <<likVars, lseVars, mixVars>>

\* if ... : best_loss = loss  else: print(..., 'converged!'); break
MixCompare ==
    /\ pc = "m_cmp"
    /\ IF Improved(loss.val, best_loss)
         THEN /\ best_loss' = loss.val
              /\ pc' = "m_zero"
              /\ UNCHANGED exitBy
         ELSE /\ pc' = "done"
              /\ exitBy' = "break"
              /\ UNCHANGED best_loss
    /\ UNCHANGED <<t, loss, ver, grad, hist, nZero, nBack, nStep>>
    /\ UNCHANGED <<likVars, lseVars, mixVars>>

MixZeroGrad ==
    /\ pc = "m_zero"
    /\ grad' = ZeroGrad(grad)
    /\ nZero' = nZero + 1
    /\ pc' = "m_back"
    /\ UNCHANGED <<t, loss, best_loss, ver, hist, nBack, nStep, exitBy>>
    /\ UNCHANGED <<likVars, lseVars, mixVars>>

MixBackward ==
    /\ pc = "m_back"
    /\ grad' = Accumulate(grad, loss)
    /\ nBack' = nBack + 1
    /\ pc' = "m_step"
    /\ UNCHANGED <<t, loss, best_loss, ver, hist, nZero, nStep, exitBy>>
    /\ UNCHANGED <<likVars, lseVars, mixVars>>

MixStep ==
    /\ pc = "m_step"
    /\ ver' = ver + 1
    /\ nStep' = nStep + 1
    /\ t' = t + 1
    /\ pc' = "m_head"
    /\ UNCHANGED <<loss, best_loss, grad, hist, nZero, nBack, exitBy>>
    /\ UNCHANGED <<likVars, lseVars, mixVars>>

LoopNext ==
    \/ PreEval \/ PreBackward
    \/ SingleHead \/ SingleEval \/ SingleZeroGrad \/ SingleBackward \/ SingleStep
    \/ MixSetup
    \/ MixHead \/ MixEval \/ MixCompare \/ MixZeroGrad \/ MixBackward \/ MixStep

----------------------------------------------------------------------------
(* Linear algebra on n_features x n_features integer matrices *)

\* n_features = 2
n_features == 2

\* d ranges over 0..MaxD in each coordinate
MaxD == 1

Idx == 1..n_features

DVals  == 0..MaxD
WVals  == {-1, 0, 1}

DVecs  == [Idx -> DVals]
MuVecs == {<<0, 0>>, <<1, 0>>}
Mats   == [Idx -> [Idx -> WVals]]

\* the sample matrices explored: one row per sample
Datasets == { << <<1, 0>> >>,
              << <<0, 1>>, <<1, -1>> >>,
              << <<1, 1>>, <<-1, 0>>, <<0, 0>> >> }

RECURSIVE SumSeq(_)
SumSeq(s) == IF s = <<>> THEN 0 ELSE Head(s) + SumSeq(Tail(s))

RECURSIVE Pow2(_)
Pow2(k) == IF k = 0 THEN 1 ELSE 2 * Pow2(k - 1)

\* torch.exp on the integer grid: the positive, strictly increasing 2^k
Exp(k) == Pow2(k)

\* torch.diag(v)
Diag(v) == [i \in Idx |-> [j \in Idx |-> IF i = j THEN v[i] ELSE 0]]

\* torch.tril(M, k): the entries on and below the k-th diagonal (j - i <= k)
Tril(M, k) == [i \in Idx |-> [j \in Idx |-> IF j - i <= k THEN M[i][j] ELSE 0]]

MatAdd(A, B) == [i \in Idx |-> [j \in Idx |-> A[i][j] + B[i][j]]]

\* M.transpose(1, 0)
Transpose(M) == [i \in Idx |-> [j \in Idx |-> M[j][i]]]

\* A @ B
MatMul(A, B) ==
    [i \in Idx |-> [j \in Idx |-> SumSeq([k \in Idx |-> A[i][k] * B[k][j]])]]

\* v @ M for a row vector v
VecMat(v, M) == [j \in Idx |-> SumSeq([k \in Idx |-> v[k] * M[k][j]])]

\* H = torch.diag(torch.exp(d)) + torch.tril(W, -1), with the diagonal of W kept
CholeskyFactorInclusive(dd, WW) ==
    MatAdd(Diag([i \in Idx |-> Exp(dd[i])]), Tril(WW, 0))

\* H = torch.diag(torch.exp(d)) + torch.tril(W, -1), with W left unmasked
CholeskyFactorUnmasked(dd, WW) ==
    MatAdd(Diag([i \in Idx |-> Exp(dd[i])]), WW)

\* H = torch.diag(torch.exp(d)) + torch.tril(W, -1)
CholeskyFactor(dd, WW) ==
    MatAdd(Diag([i \in Idx |-> Exp(dd[i])]), Tril(WW, -1))

\* P = H @ H.transpose(1, 0)
Precision(dd, WW) ==
    MatMul(CholeskyFactor(dd, WW), Transpose(CholeskyFactor(dd, WW)))

\* torch.sum(diff * (diff @ P), dim=1) for one row
QuadForm(v, PP) == SumSeq([j \in Idx |-> v[j] * VecMat(v, PP)[j]])

\* A log-density a*(0.5*log(2*pi)) + s + q*0.5 is the record of its integer
\* coefficients a (halfLog2Pi), s (logdet) and q (halfQuad).
\* loglik(X, mu, d, W): one log-density per row of X
loglik(XX, m, dd, WW) ==
    LET PP      == Precision(dd, WW)
        diff    == [n \in 1..Len(XX) |-> [j \in Idx |-> XX[n][j] - m[j]]]
        quad    == [n \in 1..Len(XX) |-> QuadForm(diff[n], PP)]
    IN  [n \in 1..Len(XX) |->
            [halfLog2Pi |-> -1, logdet |-> SumSeq(dd), halfQuad |-> -quad[n]]]

\* torch.mean of a vector of log-densities, negated: the sum of each
\* coefficient, negated, over the number of entries
NegMean(v) ==
    [halfLog2Pi |-> -SumSeq([n \in 1..Len(v) |-> v[n].halfLog2Pi]),
     logdet     |-> -SumSeq([n \in 1..Len(v) |-> v[n].logdet]),
     halfQuad   |-> -SumSeq([n \in 1..Len(v) |-> v[n].halfQuad]),
     over       |-> Len(v)]

\* nll(X, mu, d, W) = -torch.mean(loglik(X, mu, d, W))
nll(XX, m, dd, WW) == NegMean(loglik(XX, m, dd, WW))

NoEval == [per |-> <<>>, mean |-> [halfLog2Pi |-> 0, logdet |-> 0, halfQuad |-> 0, over |-> 0]]

LikIdle ==
    /\ lpc = "idle" /\ X = <<>> /\ mu = <<0, 0>> /\ d = <<0, 0>>
    /\ W = <<<<0, 0>>, <<0, 0>>>> /\ ll = NoEval

LikInit ==
    /\ lpc = "ready"
    /\ X \in Datasets
    /\ mu \in MuVecs
    /\ d \in DVecs
    /\ W \in Mats
    /\ ll = NoEval

\* loss = nll(X, mu, d, W): evaluates loglik and its negated mean, and writes
\* nothing but the result
LikEval ==
    /\ lpc = "ready"
    /\ ll' = [per |-> loglik(X, mu, d, W), mean |-> nll(X, mu, d, W)]
    /\ lpc' = "evaluated"
    /\ UNCHANGED <<X, mu, d, W>>
    /\ UNCHANGED <<loopVars, lseVars, mixVars>>

\* optimizer.step(): mu, d and W are rewritten in place; the next iteration
\* evaluates the loss afresh
LikStep ==
    /\ lpc = "evaluated"
    /\ mu' \in MuVecs
    /\ d' \in DVecs
    /\ W' \in Mats
    /\ ll' = NoEval
    /\ lpc' = "ready"
    /\ UNCHANGED X
    /\ UNCHANGED <<loopVars, lseVars, mixVars>>

LikNext == LikEval \/ LikStep

----------------------------------------------------------------------------
(* Log-domain scores and logsumexp *)

\* A score a*(0.5*log(2*pi)) + h*0.5 + z*log(sum_j exp(weights_j)): integer
\* coefficients a, h (half nats) and z.  Within one matrix all entries carry
\* the same a and z, so the order of two entries is the order of their h.
LV(a, h, z) == [a |-> a, h |-> h, z |-> z]

LvAdd(x, y) == LV(x.a + y.a, x.h + y.h, x.z + y.z)
LvSub(x, y) == LV(x.a - y.a, x.h - y.h, x.z - y.z)

RECURSIVE LvMax(_)
LvMax(s) ==
    IF Len(s) = 1 THEN s[1]
    ELSE LET m == LvMax(Tail(s)) IN IF Head(s).h >= m.h THEN Head(s) ELSE m

\* the outcome of a call: a returned value or a raised exception
Ok(v)  == [kind |-> "ok", exc |-> "", value |-> v]
Err(e) == [kind |-> "error", exc |-> e, value |-> <<>>]

NRows(M) == Len(M)
NCols(M) == Len(M[1])

\* logsumexp(data, dim=0) on a 2-D tensor.
\*   torch.max(data, dim) raises IndexError for an axis the tensor does not
\*   have (dim outside -2..1);
\*   dim == 0 and dim == 1 return max_score + log(sum(exp(data - max_score_bcast), dim)),
\*   kept as the pair (max, shifted terms) per output entry;
\*   any other axis reaches `raise NotImplemented(...)`: NotImplemented is a
\*   constant, not an exception class, so the call itself raises TypeError.
logsumexp(dat, dm) ==
    IF dm \notin -2..1 THEN Err("IndexError")
    ELSE IF dm = 0 THEN
        Ok([c \in 1..NCols(dat) |->
              LET m == LvMax([r \in 1..NRows(dat) |-> dat[r][c]])
              IN  [max |-> m, terms |-> [r \in 1..NRows(dat) |-> LvSub(dat[r][c], m)]]])
    ELSE IF dm = 1 THEN
        Ok([r \in 1..NRows(dat) |->
              LET m == LvMax(dat[r])
              IN  [max |-> m, terms |-> [c \in 1..NCols(dat) |-> LvSub(dat[r][c], m)]]])
    ELSE Err("TypeError")

\* scores of the matrices logsumexp is tried on are 0..MaxScore half nats
MaxScore == 1
\* the matrices have up to MaxSide rows and columns
MaxSide == 2
\* the axes tried are -MaxAxis..MaxAxis
MaxAxis == 3

ScoreVals == {LV(0, h, 0) : h \in 0..MaxScore}

ScoreMats ==
    UNION { [1..r -> [1..c -> ScoreVals]] : r \in 1..MaxSide, c \in 1..MaxSide }

NoOutcome == [kind |-> "none", exc |-> "", value |-> <<>>]

LseIdle == spc = "idle" /\ data = <<>> /\ dim = 0 /\ lse = NoOutcome

LseInit ==
    /\ spc = "ready"
    /\ data \in ScoreMats
    /\ dim \in -MaxAxis..MaxAxis
    /\ lse = NoOutcome

\* logsumexp(test_data, dim)
LseCall ==
    /\ spc = "ready"
    /\ lse' = logsumexp(data, dim)
    /\ spc' = "called"
    /\ UNCHANGED <<data, dim>>
    /\ UNCHANGED <<loopVars, likVars, mixVars>>

LseNext == LseCall

----------------------------------------------------------------------------
(* The mixture loss *)

\* the number of components, of logits and the values of n_components are 1..MaxK
MaxK == 3

Min(a, b) == IF a <= b THEN a ELSE b

RECURSIVE Concat(_)
Concat(ss) == IF ss = <<>> THEN <<>> ELSE Head(ss) \o Concat(Tail(ss))

\* the log-density of loglik as a score: s = 2*s half nats, q*0.5 = q half nats
Score(ld) == LV(ld.halfLog2Pi, 2 * ld.logdet + ld.halfQuad, 0)

\* logsotfmax(weights).transpose(1, 0): a column with one entry
\* weights_k - log(sum_j exp(weights_j)) per logit
LogSoftmaxT(w) == [k \in 1..Len(w) |-> LV(0, 2 * w[k], -1)]

\* mixture_nll(X, weights, means, prec_diags, prec_off_diags), which reads
\* the global n_components when it reshapes the concatenated likelihoods:
\*   zip(...) stops at the shortest list; torch.cat gives K*N entries;
\*   .view(n_components, -1) raises unless n_components divides K*N;
\*   logliks + log_normalized_weights broadcasts (R, C) with (Kw, 1) and
\*   raises unless R = Kw or one of them is 1;
\*   the result is torch.mean(-logsumexp(..., dim=0)): the logsumexp entries
\*   and the number of them the mean divides by.
mixture_nll(XX, w, means, prec_diags, prec_off_diags) ==
    LET K     == Min(Len(means), Min(Len(prec_diags), Len(prec_off_diags)))
        lnw   == LogSoftmaxT(w)
        lls   == [k \in 1..K |->
                    LET v == loglik(XX, means[k], prec_diags[k], prec_off_diags[k])
                    IN  [n \in 1..Len(v) |-> Score(v[n])]]
        flat  == Concat(lls)
        R     == n_components
        C     == Len(flat) \div R
        Kw    == Len(w)
        rows  == IF R = 1 THEN Kw ELSE R
        mat   == [r \in 1..R |-> [c \in 1..C |-> flat[(r - 1) * C + c]]]
        sum   == [r \in 1..rows |-> [c \in 1..C |->
                    LvAdd(mat[IF R = 1 THEN 1 ELSE r][c],
                          lnw[IF Kw = 1 THEN 1 ELSE r])]]
        red   == logsumexp(sum, 0)
    IN  IF Len(flat) % R # 0 THEN Err("RuntimeError")
        ELSE IF R # Kw /\ R # 1 /\ Kw # 1 THEN Err("RuntimeError")
        ELSE IF red.kind # "ok" THEN red
        ELSE Ok([terms |-> red.value, over |-> Len(red.value)])

\* the parameter triples the components are drawn from
CompParams ==
    { [mu |-> <<0, 0>>, d |-> <<0, 0>>, W |-> <<<<0, 0>>, <<0, 0>>>>],
      [mu |-> <<1, 0>>, d |-> <<1, 0>>, W |-> <<<<1, -1>>, <<1, 0>>>>],
      [mu |-> <<0, 0>>, d |-> <<0, 1>>, W |-> <<<<0, 1>>, <<-1, 1>>>>] }

LogitVals == {0, 1}

MixIdle ==
    /\ mpc = "idle" /\ n_components = 1 /\ weights = <<>>
    /\ comps = [means |-> <<>>, prec_diags |-> <<>>, prec_off_diags |-> <<>>]
    /\ outs = <<>>

\* weights and the three lists are built with one entry per component; the
\* global n_components holds any value when mixture_nll is called
MixInit ==
    /\ mpc = "ready"
    /\ n_components \in 1..MaxK
    /\ \E K \in 1..MaxK :
          /\ weights \in [1..K -> LogitVals]
          /\ \E cs \in [1..K -> CompParams] :
                comps = [means          |-> [k \in 1..K |-> cs[k].mu],
                         prec_diags     |-> [k \in 1..K |-> cs[k].d],
                         prec_off_diags |-> [k \in 1..K |-> cs[k].W]]
    /\ outs = <<>>

\* mixture_nll(X, weights, means, prec_diags, prec_off_diags): returns or
\* raises, and writes no variable of the program
MixCall ==
    /\ mpc = "ready"
    /\ Len(outs) < 2
    /\ outs' = Append(outs, mixture_nll(X, weights, comps.means,
                                        comps.prec_diags, comps.prec_off_diags))
    /\ UNCHANGED <<mpc, n_components, weights, comps, X>>
    /\ UNCHANGED <<loopVars, lseVars, lpc, mu, d, W, ll>>

\* n_components = ...: the notebook cell that binds the global runs again
Rebind ==
    /\ mpc = "ready"
    /\ Len(outs) = 1
    /\ \E g \in 1..MaxK : g # n_components /\ n_components' = g
    /\ UNCHANGED <<mpc, weights, comps, outs, X>>
    /\ UNCHANGED <<loopVars, lseVars, lpc, mu, d, W, ll>>

MixNext == MixCall \/ Rebind

----------------------------------------------------------------------------
(* Specifications *)

InitLoop == LoopInit /\ LikIdle /\ LseIdle /\ MixIdle

InitLik == LoopIdle /\ LikInit /\ LseIdle /\ MixIdle

InitLse == LoopIdle /\ LikIdle /\ LseInit /\ MixIdle

InitMix ==
    /\ LoopIdle /\ LseIdle /\ MixInit
    /\ lpc = "idle" /\ X \in Datasets /\ mu = <<0, 0>> /\ d = <<0, 0>>
    /\ W = <<<<0, 0>>, <<0, 0>>>> /\ ll = NoEval

SpecLoop == InitLoop /\ [][LoopNext]_vars

SpecLik == InitLik /\ [][LikNext]_vars

SpecLse == InitLse /\ [][LseNext]_vars

SpecMix == InitMix /\ [][MixNext]_vars

----------------------------------------------------------------------------
(* Properties of the optimization loops, under SpecLoop *)

MixUpdatePcs    == {"m_zero", "m_back", "m_step"}
SingleUpdatePcs == {"s_zero", "s_back", "s_step"}
MixPcs          == {"m_head", "m_eval", "m_cmp", "done"} \cup MixUpdatePcs

\* the first n losses of s each strictly lower than everything before them
\* (the empty prefix counting as +infinity)
Descending(s, n) ==
    \A i \in 1..n : FloatLt(s[i], IF i = 1 THEN PosInf ELSE s[i - 1])

\* m is the lowest of the first n losses of s, +infinity when n = 0
LowestOf(m, s, n) ==
    IF n = 0 THEN m = PosInf
    ELSE /\ \E i \in 1..n : s[i] = m
         /\ \A i \in 1..n : ~ FloatLt(s[i], m)

\* C1: the mixture loop stops at the first iteration whose loss is not
\* strictly lower than the lowest loss of the iterations before it; until
\* then best_loss is the minimum of the losses evaluated so far, and the
\* losses of the iterations that ran an update are strictly decreasing.
StopsAtFirstNonImprovement ==
    /\ pc \in {"m_head", "m_eval"} =>
          /\ Len(hist) = t
          /\ Descending(hist, t)
          /\ LowestOf(best_loss, hist, t)
    /\ pc = "m_cmp" =>
          /\ Len(hist) = t + 1
          /\ Descending(hist, t)
          /\ LowestOf(best_loss, hist, t)
    /\ pc \in MixUpdatePcs =>
          /\ Len(hist) = t + 1
          /\ Descending(hist, t + 1)
          /\ LowestOf(best_loss, hist, t + 1)
    /\ (pc = "done" /\ exitBy = "break") =>
          /\ Len(hist) = t + 1
          /\ Descending(hist, t)
          /\ LowestOf(best_loss, hist, t)
          /\ ~ FloatLt(hist[t + 1], best_loss)
    /\ (pc = "done" /\ exitBy = "exhausted") =>
          /\ t = MaxIterM
          /\ Len(hist) = MaxIterM
          /\ Descending(hist, MaxIterM)

\* the loop left through the break after two improving iterations
StoppedAfterTwoImprovements ==
    /\ pc = "done" /\ exitBy = "break" /\ t = 2
    /\ hist[3].kind = "fin" /\ hist[3] = hist[2]

\* C2: the single-Gaussian loop stops at the first loss that is not strictly
\* better than the best so far: it runs an update only for a loss strictly
\* lower than all the losses before it.
SingleLoopStopsAtFirstNonImprovement ==
    pc \in SingleUpdatePcs => Descending(hist, Len(hist))

\* C3: when step runs, in either loop, the gradient buffers hold the
\* gradient of this iteration's loss at the current parameters and nothing
\* else, zero_grad and backward having run in that order after the loss
\* was evaluated.
StepUsesFreshGradient ==
    /\ pc = "s_back" => (grad = <<>> /\ nZero = t + 1 /\ nBack = t)
    /\ pc = "m_back" => (grad = <<>> /\ nZero = t + 1 /\ nBack = t)
    /\ pc = "s_step" =>
          /\ grad = <<[ph |-> "single", it |-> t, at |-> ver]>>
          /\ loss.ph = "single" /\ loss.it = t /\ loss.at = ver
          /\ nZero = t + 1 /\ nBack = t + 1 /\ nStep = t
    /\ pc = "m_step" =>
          /\ grad = <<[ph |-> "mixture", it |-> t, at |-> ver]>>
          /\ loss.ph = "mixture" /\ loss.it = t /\ loss.at = ver
          /\ nZero = t + 1 /\ nBack = t + 1 /\ nStep = t

\* the second step of the first loop is about to run: the backward call made
\* before the loop and the backward of iteration 0 both came before it
SecondSingleStepReady ==
    pc = "s_step" /\ t = 1 /\ nStep = 1

\* C9: leaving the mixture loop through the break at iteration t,
\* zero_grad, backward and step have each run t times and the loss held is
\* the loss of iteration t at the final parameters; leaving it by
\* exhaustion, step has run once per iteration.
BreakAppliesNoUpdate ==
    /\ (pc = "done" /\ exitBy = "break") =>
          /\ nZero = t /\ nBack = t /\ nStep = t
          /\ ver = t
          /\ loss.ph = "mixture" /\ loss.it = t /\ loss.at = ver
    /\ (pc = "done" /\ exitBy = "exhausted") =>
          /\ nStep = MaxIterM /\ nZero = MaxIterM /\ nBack = MaxIterM
          /\ ver = MaxIterM

\* the break taken at iteration 1, after one update
BrokeAfterOneUpdate ==
    pc = "done" /\ exitBy = "break" /\ t = 1 /\ nStep = 1

NonFinite(x) == x.kind \in {"nan", "inf"}

\* C10: in the mixture loop a NaN or +infinity loss at iteration t ends the
\* run at iteration t through the break; no update is made for it, no
\* gradient of it reaches the buffers, and best_loss is never NaN.
NonFiniteLossStops ==
    /\ best_loss.kind # "nan"
    /\ pc \in MixPcs =>
          /\ \A i \in 1..Len(hist) :
                NonFinite(hist[i]) =>
                   /\ i = Len(hist)
                   /\ i = t + 1
                   /\ pc \in {"m_cmp", "done"}
                   /\ pc = "done" => exitBy = "break"
          /\ \A k \in 1..Len(grad) :
                grad[k].ph = "mixture" => ~ NonFinite(hist[grad[k].it + 1])
    /\ pc \in MixUpdatePcs => ~ NonFinite(loss.val)

\* a NaN loss met at iteration 1 has ended the run
NaNEndedRun ==
    pc = "done" /\ exitBy = "break" /\ t = 1 /\ loss.val = NaN /\ nStep = 1

----------------------------------------------------------------------------
(* Properties of the likelihood, under SpecLik *)

\* C5: loglik returns -0.5*F*log(2*pi) + sum(d) - 0.5*(x-mu)' P (x-mu) for
\* every sample x, F the number of features.
LoglikIsGaussianLogDensity ==
    lpc = "evaluated" =>
       \A n \in 1..Len(X) :
          ll.per[n] =
             [halfLog2Pi |-> -n_features,
              logdet     |-> SumSeq(d),
              halfQuad   |-> -QuadForm([j \in Idx |-> X[n][j] - mu[j]],
                                       Precision(d, W))]

TestVecs == [Idx -> -2..2] \ {[i \in Idx |-> 0]}

\* C6: at every loss evaluation H is lower triangular with a strictly
\* positive diagonal and P = H H' is symmetric and positive definite.
PrecisionIsPositiveDefinite ==
    lpc = "evaluated" =>
       LET HH == CholeskyFactor(d, W)
           PP == Precision(d, W)
       IN  /\ \A i, j \in Idx : i < j => HH[i][j] = 0
           /\ \A i \in Idx : HH[i][i] > 0
           /\ \A i, j \in Idx : PP[i][j] = PP[j][i]
           /\ \A x \in TestVecs : QuadForm(x, PP) > 0

\* a loss evaluated with negative entries on the diagonal of W and a nonzero
\* entry above it
EvaluatedWithNegativeDiagonalW ==
    /\ lpc = "evaluated"
    /\ W[1][1] = -1 /\ W[2][2] = -1 /\ W[1][2] = 1 /\ W[2][1] = -1
    /\ d = <<0, 0>>

AgreeStrictlyLower(A, B) == \A i, j \in Idx : i > j => A[i][j] = B[i][j]

\* C7: the diagonal and the upper triangle of W are ignored: any W2 equal to
\* W strictly below the diagonal gives the same loglik and the same nll, and
\* the diagonal of H is exp(d).
UpperAndDiagonalOfWIgnored ==
    lpc = "evaluated" =>
       /\ \A W2 \in Mats :
             AgreeStrictlyLower(W, W2) =>
                /\ loglik(X, mu, d, W2) = ll.per
                /\ nll(X, mu, d, W2) = ll.mean
       /\ \A i \in Idx : CholeskyFactor(d, W)[i][i] = Exp(d[i])

\* a loss of two samples evaluated with nonzero diagonal and upper entries of W
EvaluatedWithFullW ==
    /\ lpc = "evaluated"
    /\ Len(X) = 2
    /\ W[1][1] = 1 /\ W[1][2] = 1 /\ W[2][2] = -1 /\ W[2][1] = 1
    /\ ll.mean.halfQuad # 0

----------------------------------------------------------------------------
(* Properties of logsumexp, under SpecLse *)

\* C4: logsumexp returns a result for dim 0 and dim 1, and for any other dim
\* ends in an error that reports the unsupported axis, returning nothing.
UnsupportedAxisReported ==
    spc = "called" =>
       IF dim \in {0, 1}
         THEN lse.kind = "ok"
         ELSE /\ lse.kind = "error"
              /\ lse.exc \in {"IndexError", "NotImplementedError"}

----------------------------------------------------------------------------
(* Properties of the mixture loss, under SpecMix *)

\* C8: evaluating mixture_nll changes no program state, and two evaluations
\* with equal arguments have equal results whatever the global n_components
\* holds; stated in the form that needs no comparison of real values: when
\* one of the two evaluations returns a value, so does the other.
MixtureLossIndependentOfGlobal ==
    Len(outs) = 2 => outs[1].kind = outs[2].kind

====
